---- MODULE Spec2Model ----
(***************************************************************************)
(* twemproxy_exporter: the stats translator (parseStats) and the poll      *)
(* driver (main's ticker goroutine calling Monitor.Run).                   *)
(*                                                                         *)
(* A JSON value is a tagged record [t, v]: t is "string", "number" or      *)
(* "object"; an object's v is a function from its keys to JSON values.     *)
(* A Go type assertion x.(T) without the comma-ok form panics when the key *)
(* is absent (nil interface) or the value has another type; an unrecovered *)
(* panic in any goroutine ends the whole process.                          *)
(* Numbers are modelled as naturals (the code holds them as float64).      *)
(* The instance label (hostname) is the same on every series and is left   *)
(* out of the series keys.  The HTTP goroutine only reads the gauges; its  *)
(* one effect on the rest of the process, ListenAndServe failing, is one   *)
(* of the two causes of Terminate.                                         *)
(***************************************************************************)
EXTENDS Integers, Sequences, FiniteSets, TLC

\* ---------------------------------------------------------------- bounds
MaxConn == 1        \* largest server_connections value in a payload
MaxVal == 1         \* largest total_connections / curr_connections value
MaxOpenConns == 2   \* sockets the process may hold open before Dial fails

\* ------------------------------------------------------------ JSON values
Str(s) == [t |-> "string", v |-> s]
Num(n) == [t |-> "number", v |-> n]
Obj(f) == [t |-> "object", v |-> f]

EmptyMap == [k \in {} |-> Num(0)]

\* bytes that json.Unmarshal rejects (invalid, truncated or empty input)
Garbage == [valid |-> FALSE, tree |-> Obj(EmptyMap)]
\* valid JSON whose top level is not an object (Unmarshal into a map fails)
NonObject == [valid |-> TRUE, tree |-> Num(0)]

TopStringFields == {"service", "source"}
TopNumberFields == {"total_connections", "curr_connections"}
TopFields == TopStringFields \cup TopNumberFields

ServiceFields ==
    {"client_eof", "client_err", "client_connections",
     "server_ejects", "forward_error", "fragments"}

ServerFieldSeq ==
    << "server_eof", "server_err", "server_timedout", "server_connections",
       "server_ejected_at", "requests", "request_bytes", "responses",
       "response_bytes", "in_queue", "in_queue_bytes", "out_queue",
       "out_queue_bytes" >>

ServerFields == {ServerFieldSeq[i] : i \in 1..Len(ServerFieldSeq)}

\* ------------------------------------------------------------- topology
Server(ip, alias) == [IP |-> ip, Alias |-> alias]

Config(name, servers) == [ConfigName |-> name, Servers |-> servers]

TopoAlpha ==
    [alpha |-> Config("alpha", << Server("10.0.0.1:6379", ""),
                                  Server("10.0.0.2:6379", "cache2") >>)]

TopoAlphaBeta ==
    [alpha |-> Config("alpha", << Server("10.0.0.1:6379", ""),
                                  Server("10.0.0.2:6379", "cache2") >>),
     beta  |-> Config("beta",  << Server("10.0.0.3:6379", "cache3") >>)]

\* the topologies LoadConfig may have produced (addresses are distinct)
Topologies == {TopoAlpha, TopoAlphaBeta}

Backends(cfg) ==
    UNION {{<<key, i>> : i \in 1..Len(cfg[key].Servers)} : key \in DOMAIN cfg}

\* the name under which the proxy reports a backend: its alias when it has one
ReportedName(val) == IF val.Alias # "" THEN val.Alias ELSE val.IP

\* ------------------------------------------------------------- payloads
\* A payload is described by: the two connection counters, the set of
\* services that have a block, for every declared backend -1 (no sub-key)
\* or its server_connections value, and at most one defect (a field that is
\* missing or of the wrong JSON type; field "" is the whole sub-document).
NoDefect == [at |-> "none", svc |-> "", idx |-> 0, field |-> "", how |-> "missing"]

Hows == {"missing", "wrong"}

Defects(cfg) ==
    {[at |-> "top", svc |-> "", idx |-> 0, field |-> f, how |-> h] :
        f \in TopFields, h \in Hows}
    \cup {[at |-> "service", svc |-> s, idx |-> 0, field |-> f, how |-> h] :
        s \in DOMAIN cfg, f \in ServiceFields, h \in Hows}
    \cup {[at |-> "service", svc |-> s, idx |-> 0, field |-> "", how |-> "wrong"] :
        s \in DOMAIN cfg}
    \cup {[at |-> "server", svc |-> b[1], idx |-> b[2], field |-> f, how |-> h] :
        b \in Backends(cfg), f \in ServerFields, h \in Hows}
    \cup {[at |-> "server", svc |-> b[1], idx |-> b[2], field |-> "", how |-> "wrong"] :
        b \in Backends(cfg)}

GoodParams(cfg) ==
    [total : 0..MaxVal, curr : 0..MaxVal, present : SUBSET (DOMAIN cfg),
     srv : [Backends(cfg) -> -1..MaxConn], defect : {NoDefect}]

\* a defect is put into the payload in which every service and backend
\* is reported, so that the defective field is one that parseStats reads
DefectParams(cfg) ==
    [total : {MaxVal}, curr : {MaxVal}, present : {DOMAIN cfg},
     srv : {[b \in Backends(cfg) |-> MaxConn]}, defect : Defects(cfg)]

Hit(p, at, svc, idx, f, how) ==
    p.defect = [at |-> at, svc |-> svc, idx |-> idx, field |-> f, how |-> how]

FieldIndex(f) == CHOOSE i \in 1..Len(ServerFieldSeq) : ServerFieldSeq[i] = f

\* values of the leaf metrics of a backend reporting c connections
LeafValue(f, c) ==
    IF f = "server_connections" THEN c ELSE (c + FieldIndex(f)) % (MaxConn + 1)

ServerDoc(p, svc, i) ==
    IF Hit(p, "server", svc, i, "", "wrong") THEN Num(0)
    ELSE Obj([f \in {g \in ServerFields : ~Hit(p, "server", svc, i, g, "missing")} |->
                IF Hit(p, "server", svc, i, f, "wrong") THEN Str("x")
                ELSE Num(LeafValue(f, p.srv[<<svc, i>>]))])

Block(cfg, p, svc) ==
    IF Hit(p, "service", svc, 0, "", "wrong") THEN Num(0)
    ELSE LET reported == {i \in 1..Len(cfg[svc].Servers) : p.srv[<<svc, i>>] >= 0}
             names == {ReportedName(cfg[svc].Servers[i]) : i \in reported}
             scalars == {f \in ServiceFields : ~Hit(p, "service", svc, 0, f, "missing")}
         IN Obj([k \in scalars \cup names |->
                   IF k \in ServiceFields
                   THEN (IF Hit(p, "service", svc, 0, k, "wrong") THEN Str("x") ELSE Num(1))
                   ELSE ServerDoc(p, svc,
                          CHOOSE i \in reported : ReportedName(cfg[svc].Servers[i]) = k)])

TopValue(p, k) ==
    IF Hit(p, "top", "", 0, k, "wrong")
    THEN (IF k \in TopStringFields THEN Num(0) ELSE Str("x"))
    ELSE IF k = "service" THEN Str("nutcracker")
    ELSE IF k = "source" THEN Str("proxy1")
    ELSE IF k = "total_connections" THEN Num(p.total)
    ELSE Num(p.curr)

Payload(cfg, p) ==
    [valid |-> TRUE,
     tree |-> Obj([k \in {f \in TopFields : ~Hit(p, "top", "", 0, f, "missing")}
                         \cup p.present |->
                     IF k \in TopFields THEN TopValue(p, k) ELSE Block(cfg, p, k)])]

\* ----------------------------------------------------------- parseStats
\* x.(T) succeeds: the key is there and the value has the asserted type
Asserts(m, k, type) == k \in DOMAIN m /\ m[k].t = type

ZeroStats ==
    [Service |-> "", Source |-> "", TotalConnections |-> 0,
     CurrentConnections |-> 0, ExpectedAvailable |-> 0, NotAvailable |-> 0,
     Services |-> EmptyMap]

Put(m, k, x) == [j \in DOMAIN m \cup {k} |-> IF j = k THEN x ELSE m[j]]

NoConnection_AtMostOne(serverStats) == serverStats.ServerConnections <= 1

\* "means there is no connection to the server"
NoConnection(serverStats) == serverStats.ServerConnections < 1

ServerStatsOf(host, hostAlias, srv) ==
    [Host |-> host, HostAlias |-> hostAlias,
     ServerEOF |-> srv["server_eof"].v,
     ServerErr |-> srv["server_err"].v,
     ServerTimedout |-> srv["server_timedout"].v,
     ServerConnections |-> srv["server_connections"].v,
     ServerEjectedAt |-> srv["server_ejected_at"].v,
     Requests |-> srv["requests"].v,
     RequestBytes |-> srv["request_bytes"].v,
     Responses |-> srv["responses"].v,
     ResponseBytes |-> srv["response_bytes"].v,
     InQueue |-> srv["in_queue"].v,
     InQueueBytes |-> srv["in_queue_bytes"].v,
     OutQueue |-> srv["out_queue"].v,
     OutQueueBytes |-> srv["out_queue_bytes"].v]

\* one iteration of the loop over config[key].Servers; acc carries twemp,
\* serviceStats and whether a type assertion has panicked
ServerStep(acc, service, val) ==
    LET host == IF val.Alias # "" THEN val.Alias ELSE val.IP
        hostAlias == val.IP
    IN  IF acc.panic THEN acc
        ELSE IF host \notin DOMAIN service
        THEN [acc EXCEPT !.twemp.NotAvailable = @ + 1,
                         !.serviceStats.NotAvailable = @ + 1]
        ELSE IF service[host].t # "object"
                \/ \E f \in ServerFields : ~Asserts(service[host].v, f, "number")
        THEN [acc EXCEPT !.panic = TRUE]
        ELSE LET serverStats == ServerStatsOf(host, hostAlias, service[host].v)
                 down == IF NoConnection(serverStats) THEN 1 ELSE 0
             IN [acc EXCEPT
                   !.serviceStats.Servers = Put(@, host, serverStats),
                   !.twemp.NotAvailable = @ + down,
                   !.serviceStats.NotAvailable = @ + down]

RECURSIVE ServersLoop(_, _, _, _)
ServersLoop(acc, service, servers, i) ==
    IF i > Len(servers) THEN acc
    ELSE ServersLoop(ServerStep(acc, service, servers[i]), service, servers, i + 1)

\* one iteration of the loop over the services of config
ServiceStep(acc, stats, conf, key) ==
    LET serviceStats ==
            [Name |-> key, ClientEOF |-> 0, ClientErr |-> 0,
             ClientConnections |-> 0, ServerEjects |-> 0, ForwardError |-> 0,
             Fragments |-> 0,
             ExpectedAvailable |-> Len(conf[key].Servers),
             NotAvailable |-> 0, Servers |-> EmptyMap]
    IN  IF acc.panic THEN acc
        ELSE IF key \notin DOMAIN stats THEN acc
        ELSE LET counted == [acc EXCEPT !.twemp.ExpectedAvailable =
                                            @ + Len(conf[key].Servers)]
             IN IF stats[key].t # "object"
                   \/ \E f \in ServiceFields : ~Asserts(stats[key].v, f, "number")
                THEN [counted EXCEPT !.panic = TRUE]
                ELSE LET service == stats[key].v
                         filled == [serviceStats EXCEPT
                                      !.ClientEOF = service["client_eof"].v,
                                      !.ClientErr = service["client_err"].v,
                                      !.ClientConnections = service["client_connections"].v,
                                      !.ServerEjects = service["server_ejects"].v,
                                      !.ForwardError = service["forward_error"].v,
                                      !.Fragments = service["fragments"].v]
                         done == ServersLoop([counted EXCEPT !.serviceStats = filled],
                                             service, conf[key].Servers, 1)
                     IN IF done.panic THEN done
                        ELSE [done EXCEPT !.twemp.Services =
                                             Put(@, key, done.serviceStats)]

\* Go ranges over the map in an unspecified order; every step only adds to
\* counters and writes its own key, so the order does not change the result
RECURSIVE ServicesLoop(_, _, _, _)
ServicesLoop(acc, stats, conf, keys) ==
    IF keys = {} THEN acc
    ELSE LET key == CHOOSE k \in keys : TRUE
         IN ServicesLoop(ServiceStep(acc, stats, conf, key), stats, conf, keys \ {key})

\* kind "ok": (twemp, nil); "err": (TwemproxyStats{}, err); "panic": a type
\* assertion failed and nothing is returned
parseStats(statsContent, conf) ==
    IF ~statsContent.valid \/ statsContent.tree.t # "object"
    THEN [kind |-> "err", stats |-> ZeroStats]
    ELSE LET stats == statsContent.tree.v IN
         IF ~(Asserts(stats, "service", "string") /\ Asserts(stats, "source", "string")
              /\ Asserts(stats, "total_connections", "number")
              /\ Asserts(stats, "curr_connections", "number"))
         THEN [kind |-> "panic", stats |-> ZeroStats]
         ELSE LET twemp == [ZeroStats EXCEPT
                              !.Service = stats["service"].v,
                              !.Source = stats["source"].v,
                              !.TotalConnections = stats["total_connections"].v,
                              !.CurrentConnections = stats["curr_connections"].v]
                  done == ServicesLoop([panic |-> FALSE, twemp |-> twemp,
                                        serviceStats |-> ZeroStats],
                                       stats, conf, DOMAIN conf)
              IN IF done.panic THEN [kind |-> "panic", stats |-> ZeroStats]
                 ELSE [kind |-> "ok", stats |-> done.twemp]

\* ------------------------------------------------------------ the process
VARIABLES
    conf,              \* m.Config, the topology loaded by LoadConfig
    proc,              \* main: "serving" (select on term/errChan), "stopping"
                       \* (ticker stopped, sending on stopChan), "exited",
                       \* or "panicked" (the process died of a panic)
    pc,                \* the ticker goroutine: "select", then inside Run
                       \* "dial", "read", "parse", "publish"; "returned"
    tickerC,           \* ticks waiting in ticker.C (a channel of capacity 1)
    running,           \* executions of Monitor.Run in progress
    conn,              \* Run's conn: "nil" or "open"
    openConns,         \* connections dialed and not closed
    reply,             \* Run's reply[:length]
    result,            \* Run's (stats, err) as returned by parseStats
    twemproxyMetrics,  \* gauge name -> value, for the series that exist
    serverMetrics      \* <<group, redis_server>> -> the seven server gauges

vars == << conf, proc, pc, tickerC, running, conn, openConns, reply, result,
           twemproxyMetrics, serverMetrics >>

gauges == << twemproxyMetrics, serverMetrics >>

locals == << conn, reply, result >>

NoResult == [kind |-> "none", stats |-> ZeroStats]

\* the locals of Run are fresh at every call (reply is a zeroed buffer); the
\* model keeps their last values after Run has returned, until the next call
InitCommon ==
    /\ proc = "serving"
    /\ tickerC = 0
    /\ twemproxyMetrics = EmptyMap
    /\ serverMetrics = EmptyMap

Init ==
    /\ InitCommon
    /\ conf = TopoAlpha
    /\ pc = "select"
    /\ running = 0
    /\ conn = "nil"
    /\ openConns = 0
    /\ reply = Garbage
    /\ result = NoResult

Alive == proc \in {"serving", "stopping"}

\* the runtime delivers a tick; a tick that finds ticker.C full is dropped
TickerFire ==
    /\ proc = "serving"
    /\ tickerC = 0
    /\ tickerC' = 1
    /\ UNCHANGED << conf, proc, pc, running, locals, openConns, gauges >>

TickCase_Async ==
    /\ Alive
    /\ pc = "select"
    /\ tickerC = 1
    /\ tickerC' = 0
    /\ running' = running + 1
    /\ conn' = "nil"
    /\ reply' = Garbage
    /\ result' = NoResult
    /\ UNCHANGED << conf, proc, pc, openConns, gauges >>

\* case <-ticker.C: err := monitor.Run(), called in the goroutine itself
TickCase ==
    /\ Alive
    /\ pc = "select"
    /\ tickerC = 1
    /\ tickerC' = 0
    /\ running' = running + 1
    /\ pc' = "dial"
    /\ conn' = "nil"
    /\ reply' = Garbage
    /\ result' = NoResult
    /\ UNCHANGED << conf, proc, openConns, gauges >>

\* conn, err := net.Dial(...): an error is logged and Run goes on
Dial ==
    /\ Alive
    /\ pc = "dial"
    /\ \/ /\ openConns < MaxOpenConns
          /\ conn' = "open"
          /\ openConns' = openConns + 1
       \/ /\ conn' = "nil"
          /\ UNCHANGED openConns
    /\ pc' = "read"
    /\ UNCHANGED << conf, proc, tickerC, running, reply, result, gauges >>

\* length, err := conn.Read(reply): on a nil conn the call panics; a failed
\* or empty read leaves reply[:0]; an error is logged and Run goes on
Read ==
    /\ Alive
    /\ pc = "read"
    /\ IF conn = "nil"
       THEN /\ proc' = "panicked"
            /\ UNCHANGED << pc, reply >>
       ELSE /\ \/ reply' \in {Garbage, NonObject}
               \/ \E p \in GoodParams(conf) \cup DefectParams(conf) :
                     reply' = Payload(conf, p)
            /\ pc' = "parse"
            /\ UNCHANGED proc
    /\ UNCHANGED << conf, tickerC, running, conn, openConns, result, gauges >>

\* stats, err := parseStats(reply[:length], m.Config): an error is logged
\* and Run goes on with the zero TwemproxyStats
Translate ==
    /\ Alive
    /\ pc = "parse"
    /\ LET r == parseStats(reply, conf)
       IN IF r.kind = "panic"
          THEN /\ proc' = "panicked"
               /\ UNCHANGED << pc, result >>
          ELSE /\ result' = r
               /\ pc' = "publish"
               /\ UNCHANGED proc
    /\ UNCHANGED << conf, tickerC, running, conn, openConns, reply, gauges >>

ServerGaugesOf(server) ==
    [in_queue |-> server.InQueue,
     in_queue_bytes |-> server.InQueueBytes,
     err |-> server.ServerErr,
     eof |-> server.ServerEOF,
     timed_out |-> server.ServerTimedout,
     server_connection |-> server.ServerConnections,
     server_ejected_at |-> server.ServerEjectedAt]

\* the series the two loops of Run write: one per server of the snapshot,
\* labelled with the service name and server.HostAlias
Series(stats) ==
    UNION {{<<serviceName, stats.Services[serviceName].Servers[h].HostAlias>> :
              h \in DOMAIN stats.Services[serviceName].Servers} :
           serviceName \in DOMAIN stats.Services}

Written(stats, series) ==
    LET servers == stats.Services[series[1]].Servers
    IN ServerGaugesOf(servers[CHOOSE h \in DOMAIN servers :
                                 servers[h].HostAlias = series[2]])

SetServerMetrics_Reset(old, stats) ==
    [s \in Series(stats) |-> Written(stats, s)]

\* WithLabelValues(...).Set(...) creates or overwrites a series and leaves
\* every other series as it is
SetServerMetrics(old, stats) ==
    [s \in DOMAIN old \cup Series(stats) |->
        IF s \in Series(stats) THEN Written(stats, s) ELSE old[s]]

\* the rest of Run: set the gauges from stats, whatever err was; return nil
Publish ==
    /\ Alive
    /\ pc = "publish"
    /\ twemproxyMetrics' =
          [total_connections |-> result.stats.TotalConnections,
           current_connections |-> result.stats.CurrentConnections]
    /\ serverMetrics' = SetServerMetrics(serverMetrics, result.stats)
    /\ running' = running - 1
    /\ pc' = "select"
    /\ UNCHANGED << conf, proc, tickerC, locals, openConns >>

\* main: SIGTERM/interrupt, or ListenAndServe failed; then ticker.Stop()
Terminate ==
    /\ proc = "serving"
    /\ proc' = "stopping"
    /\ UNCHANGED << conf, pc, tickerC, running, locals, openConns, gauges >>

\* stopChan <- true meets case <-stopChan: the goroutine returns, main exits
StopCase ==
    /\ proc = "stopping"
    /\ pc = "select"
    /\ pc' = "returned"
    /\ proc' = "exited"
    /\ UNCHANGED << conf, tickerC, running, locals, openConns, gauges >>

Next ==
    \/ TickerFire
    \/ TickCase
    \/ Dial
    \/ Read
    \/ Translate
    \/ Publish
    \/ Terminate
    \/ StopCase

Spec == Init /\ [][Next]_vars

\* ------------------------------------------- parseStats on its own inputs
\* Run has read some payload for some topology and is about to translate it
InitParse ==
    /\ InitCommon
    /\ conf \in Topologies
    /\ pc = "parse"
    /\ running = 1
    /\ conn = "open"
    /\ openConns = 1
    /\ \/ reply \in {Garbage, NonObject}
       \/ \E p \in GoodParams(conf) \cup DefectParams(conf) :
             reply = Payload(conf, p)
    /\ result = NoResult

NextParse ==
    \/ Translate
    \/ Publish

SpecParse == InitParse /\ [][NextParse]_vars

\* ------------------------------------------------------------ properties
\* Run holds a snapshot that parseStats has just returned for reply
Returned == pc = "publish"

\* parseStats returned (twemp, nil) for reply
ReturnedOk == pc = "publish" /\ result.kind = "ok"

IsDocument == reply.valid /\ reply.tree.t = "object"

DeclaredServers(key) == conf[key].Servers

\* the declared backend b = <<service, index>> is missing from its service's
\* block of doc, or reports fewer than one connection
Down(doc, b) ==
    LET name == ReportedName(DeclaredServers(b[1])[b[2]])
        block == doc[b[1]].v
    IN  name \notin DOMAIN block \/ block[name].v["server_connections"].v < 1

\* a mandatory top-level field, or the block or a mandatory scalar of a
\* declared service that has a block, is absent or of the wrong shape
MandatoryDefect(doc) ==
    \/ ~Asserts(doc, "service", "string")
    \/ ~Asserts(doc, "source", "string")
    \/ ~Asserts(doc, "total_connections", "number")
    \/ ~Asserts(doc, "curr_connections", "number")
    \/ \E key \in DOMAIN conf \cap DOMAIN doc :
          \/ doc[key].t # "object"
          \/ \E f \in ServiceFields : ~Asserts(doc[key].v, f, "number")

\* every sub-document of a declared backend is an object whose fields, as
\* far as they are there, are numbers
LeavesWellTyped(doc) ==
    \A b \in Backends(conf) :
        LET name == ReportedName(DeclaredServers(b[1])[b[2]])
        IN  (b[1] \in DOMAIN doc /\ name \in DOMAIN doc[b[1]].v) =>
                /\ doc[b[1]].v[name].t = "object"
                /\ \A f \in DOMAIN doc[b[1]].v[name].v :
                      doc[b[1]].v[name].v[f].t = "number"

StatOf(serverStats, f) ==
    CASE f = "server_eof" -> serverStats.ServerEOF
      [] f = "server_err" -> serverStats.ServerErr
      [] f = "server_timedout" -> serverStats.ServerTimedout
      [] f = "server_connections" -> serverStats.ServerConnections
      [] f = "server_ejected_at" -> serverStats.ServerEjectedAt
      [] f = "requests" -> serverStats.Requests
      [] f = "request_bytes" -> serverStats.RequestBytes
      [] f = "responses" -> serverStats.Responses
      [] f = "response_bytes" -> serverStats.ResponseBytes
      [] f = "in_queue" -> serverStats.InQueue
      [] f = "in_queue_bytes" -> serverStats.InQueueBytes
      [] f = "out_queue" -> serverStats.OutQueue
      [] OTHER -> serverStats.OutQueueBytes

\* C1: a declared service without a block in the payload still has its
\* declared backends counted in the top-level ExpectedAvailable (which is
\* then the number of all declared backends), adds nothing to the top-level
\* NotAvailable, and has no entry in Services.
C1_MissingServiceStillExpected ==
    ReturnedOk =>
        LET doc == reply.tree.v
            missing == DOMAIN conf \ DOMAIN doc
        IN  missing # {} =>
              /\ result.stats.ExpectedAvailable = Cardinality(Backends(conf))
              /\ result.stats.NotAvailable =
                    Cardinality({b \in Backends(conf) :
                                    b[1] \in DOMAIN doc /\ Down(doc, b)})
              /\ missing \cap DOMAIN result.stats.Services = {}

\* C2: a declared backend with a non-empty alias whose key is in its
\* service's block gets a ServerStats entry whose Host and HostAlias both
\* equal the alias.
C2_AliasIsHostAndHostAlias ==
    ReturnedOk =>
        \A b \in Backends(conf) :
            LET val == DeclaredServers(b[1])[b[2]]
                doc == reply.tree.v
            IN  (val.Alias # "" /\ b[1] \in DOMAIN doc
                 /\ val.Alias \in DOMAIN doc[b[1]].v) =>
                    /\ val.Alias \in DOMAIN result.stats.Services[b[1]].Servers
                    /\ result.stats.Services[b[1]].Servers[val.Alias].Host = val.Alias
                    /\ result.stats.Services[b[1]].Servers[val.Alias].HostAlias = val.Alias

\* C3: the step in which Dial fails ends the tick: the driver is idle again,
\* no gauge has changed and the process is still running.
C3_DialFailureAbandonsTick ==
    [][(pc = "dial" /\ pc' # "dial" /\ conn' = "nil") =>
          (pc' = "select" /\ running' = 0 /\ gauges' = gauges /\ proc' = proc)]_vars

\* C4: the rest of a tick whose translation returned an error changes no
\* gauge.
C4_FailedTranslationUpdatesNoMetric ==
    [][(pc = "publish" /\ result.kind = "err") => gauges' = gauges]_vars

\* C5: when the only irregularity of a payload is that leaf metrics of
\* reported backends are absent, translation succeeds and every absent
\* leaf metric is zero in the backend's ServerStats.
C5_MissingLeafMetricIsZero ==
    (IsDocument /\ ~MandatoryDefect(reply.tree.v) /\ LeavesWellTyped(reply.tree.v)) =>
        /\ proc # "panicked"
        /\ Returned =>
              /\ result.kind = "ok"
              /\ \A b \in Backends(conf) :
                    LET name == ReportedName(DeclaredServers(b[1])[b[2]])
                        doc == reply.tree.v
                    IN  (b[1] \in DOMAIN doc /\ name \in DOMAIN doc[b[1]].v) =>
                            \A f \in ServerFields \ DOMAIN doc[b[1]].v[name].v :
                                StatOf(result.stats.Services[b[1]].Servers[name], f) = 0

\* C6: on a JSON document, parseStats returns an error and the empty
\* snapshot when a mandatory field is absent or of the wrong shape, and a
\* snapshot otherwise; it does not end in any other way.
C6_SnapshotOrError ==
    (IsDocument /\ MandatoryDefect(reply.tree.v)) =>
        /\ proc # "panicked"
        /\ Returned => (result.kind = "err" /\ result.stats = ZeroStats)

\* C7: in a returned snapshot, every declared service with a block has an
\* entry whose NotAvailable is the number of its declared backends that are
\* missing from the block or report fewer than one connection; the
\* top-level NotAvailable is the number of all such backends; and a backend
\* has a ServerStats entry exactly when its key is in the block.
C7_NotAvailableCounts ==
    ReturnedOk =>
        LET doc == reply.tree.v
            stats == result.stats
        IN  /\ \A key \in DOMAIN conf \cap DOMAIN doc :
                  /\ key \in DOMAIN stats.Services
                  /\ stats.Services[key].NotAvailable =
                        Cardinality({i \in 1..Len(DeclaredServers(key)) :
                                        Down(doc, <<key, i>>)})
                  /\ \A i \in 1..Len(DeclaredServers(key)) :
                        LET name == ReportedName(DeclaredServers(key)[i])
                        IN  name \in DOMAIN stats.Services[key].Servers
                               <=> name \in DOMAIN doc[key].v
            /\ stats.NotAvailable =
                  Cardinality({b \in Backends(conf) :
                                  b[1] \in DOMAIN doc /\ Down(doc, b)})

\* a snapshot with one backend missing from its block and another one
\* reported with no connection, both counted, only the second emitted
C7_Witness ==
    /\ ReturnedOk
    /\ "alpha" \in DOMAIN result.stats.Services
    /\ result.stats.Services["alpha"].NotAvailable = 2
    /\ result.stats.NotAvailable >= 2
    /\ DOMAIN result.stats.Services["alpha"].Servers = {"cache2"}
    /\ result.stats.Services["alpha"].Servers["cache2"].ServerConnections = 0

\* C8: at most one execution of Monitor.Run is in progress.
C8_CyclesNeverOverlap == running <= 1

\* a tick has arrived while a cycle is running
C8_Witness == running = 1 /\ tickerC = 1 /\ pc \in {"read", "parse", "publish"}

\* C9: whenever the driver is idle, no connection is open.
C9_NoConnectionOpenWhenIdle == pc = "select" => openConns = 0

\* C10: a series of server gauges that exists keeps existing, and its
\* values change only in the publishing step of a tick whose snapshot has a
\* ServerStats entry for it.
C10_ServerGaugesOnlyOverwritten ==
    [][\A s \in DOMAIN serverMetrics :
          /\ s \in DOMAIN serverMetrics'
          /\ serverMetrics'[s] # serverMetrics[s] =>
                (pc = "publish" /\ s \in Series(result.stats))]_vars

\* a tick has published a snapshot without an entry for a server whose
\* gauges an earlier tick had set; they still show its old connection count
C10_Witness ==
    /\ pc = "select"
    /\ result.kind = "ok"
    /\ \E s \in DOMAIN serverMetrics :
          /\ s \notin Series(result.stats)
          /\ serverMetrics[s].server_connection = 1

====
